---- MODULE Spec2Model ----
(***************************************************************************)
(* Network automation exercises: backup.py (netmiko), the LLDP script      *)
(* gather_lldp_neighbors.py (NAPALM), the Ansible modules                  *)
(* ntc_get_neighbors and ntc_snmp.  Each script is a sequential program;   *)
(* a step of the model is one call into the device library or the file     *)
(* system, whose outcome the environment chooses.                          *)
(***************************************************************************)
EXTENDS Integers, Sequences, FiniteSets, TLC

\* ---------------------------------------------------------------- bounds
MaxDevices == 2
MaxNeighbors == 2
MaxRenameDevices == 1

\* ------------------------------------------------------------ vocabulary
Scripts == {"backup", "lldp", "ntc_get_neighbors", "ntc_snmp"}

\* exception classes the device libraries and the file system can raise
ExcKinds == {"NetmikoTimeoutException", "NetmikoAuthenticationException",
             "OtherException"}

\* device_type values of hosts.yaml for backup.py (netmiko platforms)
NetmikoTypes == {"cisco_ios", "juniper_junos", "linux"}
\* device_type / os values handed to NAPALM's get_network_driver
NapalmTypes == {"ios", "junos", "unknown_os"}
NapalmDrivers == {"eos", "ios", "iosxr", "junos", "nxos", "nxos_ssh"}
SnmpOsChoices == {"ios", "nxos"}

\* constants.COMMANDS: per device type command table
COMMANDS == [cisco_ios |-> "show running-config",
             juniper_junos |-> "show configuration"]

\* ---------------------------------------------------- python dict helpers
EmptyDict == <<>>

DictPop(d, k) == [x \in (DOMAIN d) \ {k} |-> d[x]]

DictSet(d, k, v) == [x \in (DOMAIN d) \cup {k} |-> IF x = k THEN v ELSE d[x]]

\* ------------------------------------------------------ neighbour records
Hostnames == {"sw1", "sw2"}
Ports == {"Gi0/1"}
Interfaces == {"Gi0/0", "Gi0/2"}

RawRecords == [hostname : Hostnames, port : Ports]

NeighborLists(n) == UNION {[1..k -> RawRecords] : k \in 0..n}

DeviceOutputs(n) ==
    UNION {[S -> NeighborLists(n)] : S \in SUBSET Interfaces}

\* a variant that reads the old keys without popping them
RenameRecordKeepOld(neighbor) ==
    DictSet(DictSet(neighbor, "neighbor", neighbor["hostname"]),
            "neighbor_interface", neighbor["port"])

\* neighbor["neighbor"] = neighbor.pop("hostname");
\* neighbor["neighbor_interface"] = neighbor.pop("port")
RenameRecord(neighbor) ==
    LET v1 == neighbor["hostname"]
        d1 == DictSet(DictPop(neighbor, "hostname"), "neighbor", v1)
        v2 == d1["port"]
    IN  DictSet(DictPop(d1, "port"), "neighbor_interface", v2)

RenameList(neighbors) == [i \in DOMAIN neighbors |-> RenameRecord(neighbors[i])]

\* exercise3: one device's interface -> neighbour list mapping
replace_dict_key_module(lldp) ==
    [ifc \in DOMAIN lldp |-> RenameList(lldp[ifc])]

\* exercise2: device -> interface -> neighbour list mapping
replace_dict_key(lldp) ==
    [dev \in DOMAIN lldp |->
        [ifc \in DOMAIN lldp[dev] |-> RenameList(lldp[dev][ifc])]]

\* what device.get_lldp_neighbors() can return in the script runs
SampleOutputs ==
    {EmptyDict,
     [ifc \in {"Gi0/0"} |-> <<[hostname |-> "sw1", port |-> "Gi0/1"]>>],
     [ifc \in Interfaces |->
        IF ifc = "Gi0/0"
        THEN <<[hostname |-> "sw1", port |-> "Gi0/1"],
               [hostname |-> "sw2", port |-> "Gi0/1"]>>
        ELSE <<>>]}

\* ---------------------------------------------------------------- state
VARIABLES
    script,        \* which program runs
    params,        \* module parameters: os, replace
    pc,            \* position of the program
    fn,            \* per-device function executing, or "none"
    phase,         \* ntc_snmp main: which call of main is next
    yamlRead,      \* hosts.yaml was read
    inventory,     \* inventory["devices"]: device index -> device_type
    idx,           \* loop position in the inventory
    command,       \* command argument of send_command
    driver_os,     \* argument of get_network_driver
    open,          \* number of open device sessions
    exc,           \* exception propagating, or "none"
    trace,         \* connect / execute / close steps of the current call
    attempted,     \* devices whose connection was attempted
    sent,          \* device -> command run on its session
    succeeded,     \* devices whose command ran without an exception
    output,        \* send_command: output
    device_lldp_neighbors, \* get_lldp_neighbors: return value
    files,         \* backup files: device -> text
    lldp_neighbors,\* aggregated neighbour mapping
    rawInput,      \* the mapping as it was before replace_dict_key
    jsonWritten,   \* lldp_neighbors.json was written
    exitCode,      \* -1 while running
    log,           \* ntc_snmp: calls main has made, in order
    snmp_info,     \* get_snmp_info: return value
    curr_snmp_config,
    rendered,      \* last config generate_config returned
    config,        \* config argument of config_device
    res,           \* config_device: compare output (diff lines)
    loads,         \* configs loaded as merge candidate, in order
    committed,     \* configs committed on the device, in order
    callCommits,   \* commit_config invocations of the current call
    snmp_result,   \* result["snmp_config"]
    changed        \* changed= of exit_json: "unset", "True", "False"

vars == <<script, params, pc, fn, phase, yamlRead, inventory, idx, command,
          driver_os, open, exc, trace, attempted, sent, succeeded, output,
          device_lldp_neighbors, files, lldp_neighbors, rawInput,
          jsonWritten, exitCode, log, snmp_info, curr_snmp_config, rendered,
          config, res, loads, committed, callCommits, snmp_result, changed>>

staticVars == <<script, params>>
invVars == <<yamlRead, inventory, idx>>
callVars == <<command, driver_os>>
ghostVars == <<attempted, sent, succeeded>>
backupVars == <<output, files>>
lldpVars == <<device_lldp_neighbors, lldp_neighbors, rawInput, jsonWritten>>
snmpMainVars == <<phase, log, curr_snmp_config, rendered, snmp_result, changed>>
snmpDevVars == <<snmp_info, config, res, loads, committed, callCommits>>

Inventories(types) == UNION {[1..n -> types] : n \in 0..MaxDevices}

InitCommon ==
    /\ fn = "none"
    /\ phase = "none"
    /\ yamlRead = FALSE
    /\ inventory = <<>>
    /\ idx = 1
    /\ command = ""
    /\ driver_os = ""
    /\ open = 0
    /\ exc = "none"
    /\ trace = <<>>
    /\ attempted = {}
    /\ sent = EmptyDict
    /\ succeeded = {}
    /\ output = ""
    /\ files = EmptyDict
    /\ rawInput = EmptyDict
    /\ jsonWritten = FALSE
    /\ exitCode = -1
    /\ log = <<>>
    /\ snmp_info = "{}"
    /\ curr_snmp_config = "{}"
    /\ rendered = <<>>
    /\ config = <<>>
    /\ res = <<>>
    /\ loads = <<>>
    /\ committed = <<>>
    /\ callCommits = 0
    /\ snmp_result = <<>>
    /\ changed = "unset"

Init ==
    /\ script \in Scripts
    /\ params \in [os : NapalmTypes \cup SnmpOsChoices, replace : BOOLEAN]
    /\ script = "ntc_snmp" => params.os \in SnmpOsChoices
    /\ script = "ntc_get_neighbors" => params.os \in NapalmTypes /\ ~params.replace
    /\ script \in {"backup", "lldp"} => params = [os |-> "ios", replace |-> FALSE]
    /\ pc = "start"
    /\ device_lldp_neighbors = EmptyDict
    /\ lldp_neighbors = EmptyDict
    /\ InitCommon

\* ------------------------------------------------- per-device functions
NapalmFunctions == {"get_lldp_neighbors", "get_snmp_info", "config_device"}

\* the except clause of the function: send_command names two netmiko
\* classes, the NAPALM functions catch BaseException
Catches(f, kind) ==
    IF f = "send_command"
    THEN kind \in {"NetmikoTimeoutException", "NetmikoAuthenticationException"}
    ELSE TRUE

\* where control goes when kind is raised inside the function's try block
AfterException(f, kind) == IF Catches(f, kind) THEN "return" ELSE "uncaught"

\* first call made on the open session
FirstStep(f) ==
    CASE f = "send_command" -> "send_command"
      [] f = "get_lldp_neighbors" -> "get_lldp"
      [] f = "get_snmp_info" -> "get_snmp"
      [] f = "config_device" -> "load"

\* a variant without the with statement: close only after a clean body
SessionsAfterCleanExit(n, e) == IF e = "none" THEN n - 1 ELSE n

\* the with statement's exit: the session is closed whether or not the
\* body raised
SessionsAfterExit(n, e) == n - 1

\* driver = get_network_driver(...), before the try block
get_network_driver ==
    /\ pc = "resolve"
    /\ fn \in NapalmFunctions
    /\ IF driver_os \in NapalmDrivers
       THEN /\ pc' = "connect"
            /\ UNCHANGED <<fn, exc>>
       ELSE /\ pc' = "uncaught"
            /\ fn' = "none"
            /\ exc' = "ModuleImportError"
    /\ UNCHANGED <<staticVars, invVars, callVars, ghostVars, backupVars,
                   lldpVars, snmpMainVars, snmpDevVars, open, trace, exitCode>>

\* ConnectHandler(**device) / driver(...).__enter__: open the session
Connect ==
    /\ pc = "connect"
    /\ fn # "none"
    /\ attempted' = attempted \cup {idx}
    /\ \E r \in {"ok"} \cup ExcKinds :
         IF r = "ok"
         THEN /\ open' = open + 1
              /\ trace' = Append(trace, "connect")
              /\ pc' = FirstStep(fn)
              /\ UNCHANGED <<fn, exc>>
         ELSE /\ pc' = AfterException(fn, r)
              /\ exc' = IF Catches(fn, r) THEN "none" ELSE r
              /\ fn' = "none"
              /\ UNCHANGED <<open, trace>>
    /\ UNCHANGED <<staticVars, invVars, callVars, sent, succeeded, backupVars,
                   lldpVars, snmpMainVars, snmpDevVars, exitCode>>

\* output = ssh.send_command(command)
SendCommand ==
    /\ pc = "send_command"
    /\ sent' = DictSet(sent, idx, command)
    /\ trace' = Append(trace, "execute")
    /\ pc' = "close"
    /\ \E r \in {"ok"} \cup ExcKinds :
         IF r = "ok"
         THEN /\ output' = "running config text"
              /\ succeeded' = succeeded \cup {idx}
              /\ UNCHANGED exc
         ELSE /\ exc' = r
              /\ UNCHANGED <<output, succeeded>>
    /\ UNCHANGED <<staticVars, invVars, callVars, attempted, files, lldpVars,
                   snmpMainVars, snmpDevVars, fn, open, exitCode>>

\* leaving the with block: close the session, then return, or run the
\* except clause and return, or let the exception leave the function
CloseSession ==
    /\ pc = "close"
    /\ open' = SessionsAfterExit(open, exc)
    /\ trace' = Append(trace, "close")
    /\ pc' = IF exc = "none" THEN "return" ELSE AfterException(fn, exc)
    /\ exc' = IF exc # "none" /\ Catches(fn, exc) THEN "none" ELSE exc
    /\ fn' = "none"
    /\ UNCHANGED <<staticVars, invVars, callVars, ghostVars, backupVars,
                   lldpVars, snmpMainVars, snmpDevVars, exitCode>>

\* an exception nobody catches ends the process with a traceback
Uncaught ==
    /\ pc = "uncaught"
    /\ pc' = "done"
    /\ exitCode' = 1
    /\ UNCHANGED <<staticVars, invVars, callVars, ghostVars, backupVars,
                   lldpVars, snmpMainVars, snmpDevVars, fn, open, exc, trace>>

\* ------------------------------------------------------------ backup.py
DefaultCommand == "show running-config"

\* a variant whose fallback is the first command of the table
resolvePayloadFirstEntry(device_type) ==
    IF device_type \in DOMAIN COMMANDS THEN COMMANDS[device_type]
    ELSE COMMANDS["juniper_junos"]

\* COMMANDS.get(device_info["device_type"], "show running-config")
resolvePayload(device_type) ==
    IF device_type \in DOMAIN COMMANDS THEN COMMANDS[device_type]
    ELSE DefaultCommand

create_parent_dir ==
    /\ pc = "start"
    /\ script = "backup"
    /\ pc' = "read_yaml"
    /\ UNCHANGED <<staticVars, invVars, callVars, ghostVars, backupVars,
                   lldpVars, snmpMainVars, snmpDevVars, fn, open, exc, trace,
                   exitCode>>

ReadYamlBody(at, types) ==
    /\ pc = at
    /\ \E readable \in BOOLEAN :
         IF readable
         THEN /\ yamlRead' = TRUE
              /\ inventory' \in Inventories(types)
              /\ pc' = "loop"
              /\ UNCHANGED exitCode
         ELSE /\ exitCode' = 1
              /\ pc' = "done"
              /\ UNCHANGED <<yamlRead, inventory>>
    /\ UNCHANGED <<staticVars, idx, callVars, ghostVars, backupVars,
                   lldpVars, snmpMainVars, snmpDevVars, fn, open, exc, trace>>

backup_read_yaml ==
    /\ script = "backup"
    /\ ReadYamlBody("read_yaml", NetmikoTypes)

\* for device, device_info in inventory["devices"].items(): send_command(...)
backup_main_loop ==
    /\ pc = "loop"
    /\ script = "backup"
    /\ IF idx <= Len(inventory)
       THEN /\ command' = resolvePayload(inventory[idx])
            /\ fn' = "send_command"
            /\ output' = ""
            /\ trace' = <<>>
            /\ pc' = "connect"
            /\ UNCHANGED exitCode
       ELSE /\ exitCode' = 0
            /\ pc' = "done"
            /\ UNCHANGED <<command, fn, output, trace>>
    /\ UNCHANGED <<staticVars, invVars, driver_os, ghostVars, files,
                   lldpVars, snmpMainVars, snmpDevVars, open, exc>>

\* write_file(f"{BACKUP_DIR}/{device}.cfg", device_output): OSError is logged
write_file ==
    /\ pc = "return"
    /\ script = "backup"
    /\ \E written \in BOOLEAN :
         files' = IF written THEN DictSet(files, idx, output) ELSE files
    /\ idx' = idx + 1
    /\ pc' = "loop"
    /\ UNCHANGED <<staticVars, yamlRead, inventory, callVars, ghostVars,
                   output, lldpVars, snmpMainVars, snmpDevVars, fn, open, exc,
                   trace, exitCode>>

\* ------------------------------------------- gather_lldp_neighbors.py
\* device_lldp_neighbors = device.get_lldp_neighbors()
GetLldpNeighbors ==
    /\ pc = "get_lldp"
    /\ trace' = Append(trace, "execute")
    /\ pc' = "close"
    /\ \E r \in {"ok"} \cup ExcKinds :
         IF r = "ok"
         THEN /\ device_lldp_neighbors' \in SampleOutputs
              /\ succeeded' = succeeded \cup {idx}
              /\ UNCHANGED exc
         ELSE /\ exc' = r
              /\ UNCHANGED <<device_lldp_neighbors, succeeded>>
    /\ UNCHANGED <<staticVars, invVars, callVars, attempted, sent, backupVars,
                   lldp_neighbors, rawInput, jsonWritten, snmpMainVars,
                   snmpDevVars, fn, open, exitCode>>

lldp_read_yaml ==
    /\ script = "lldp"
    /\ ReadYamlBody("start", NapalmTypes)

\* lldp_neighbors[device] = get_lldp_neighbors(device_info=device_info)
lldp_main_loop ==
    /\ pc = "loop"
    /\ script = "lldp"
    /\ idx <= Len(inventory)
    /\ driver_os' = inventory[idx]
    /\ fn' = "get_lldp_neighbors"
    /\ device_lldp_neighbors' = EmptyDict
    /\ trace' = <<>>
    /\ pc' = "resolve"
    /\ UNCHANGED <<staticVars, invVars, command, ghostVars, backupVars,
                   lldp_neighbors, rawInput, jsonWritten, snmpMainVars,
                   snmpDevVars, open, exc, exitCode>>

lldp_main_store ==
    /\ pc = "return"
    /\ script = "lldp"
    /\ lldp_neighbors' = DictSet(lldp_neighbors, idx, device_lldp_neighbors)
    /\ idx' = idx + 1
    /\ pc' = "loop"
    /\ UNCHANGED <<staticVars, yamlRead, inventory, callVars, ghostVars,
                   backupVars, device_lldp_neighbors, rawInput, jsonWritten,
                   snmpMainVars, snmpDevVars, fn, open, exc, trace, exitCode>>

\* after the loop: replace_dict_key, print, write_json_file (IOError logged)
lldp_main_finish ==
    /\ pc = "loop"
    /\ script = "lldp"
    /\ idx > Len(inventory)
    /\ rawInput' = lldp_neighbors
    /\ lldp_neighbors' = replace_dict_key(lldp_neighbors)
    /\ jsonWritten' \in BOOLEAN
    /\ exitCode' = 0
    /\ pc' = "done"
    /\ UNCHANGED <<staticVars, invVars, callVars, ghostVars, backupVars,
                   device_lldp_neighbors, snmpMainVars, snmpDevVars, fn, open,
                   exc, trace>>

\* ------------------------------------------------ ntc_get_neighbors.py
nbr_main ==
    /\ pc = "start"
    /\ script = "ntc_get_neighbors"
    /\ driver_os' = params.os
    /\ fn' = "get_lldp_neighbors"
    /\ device_lldp_neighbors' = EmptyDict
    /\ trace' = <<>>
    /\ pc' = "resolve"
    /\ UNCHANGED <<staticVars, invVars, command, ghostVars, backupVars,
                   lldp_neighbors, rawInput, jsonWritten, snmpMainVars,
                   snmpDevVars, open, exc, exitCode>>

\* result = replace_dict_key(lldp_neighbors); module.exit_json(changed=False, ...)
nbr_exit_json ==
    /\ pc = "return"
    /\ script = "ntc_get_neighbors"
    /\ rawInput' = device_lldp_neighbors
    /\ lldp_neighbors' = replace_dict_key_module(device_lldp_neighbors)
    /\ changed' = "False"
    /\ exitCode' = 0
    /\ pc' = "done"
    /\ UNCHANGED <<staticVars, invVars, callVars, ghostVars, backupVars,
                   device_lldp_neighbors, jsonWritten, phase, log,
                   curr_snmp_config, rendered, snmp_result, snmpDevVars, fn,
                   open, exc, trace>>

\* ---------------------------------------------------------- ntc_snmp.py
TeardownTemplate == "library/templates/no_snmp_config.j2"
TargetTemplate == "library/templates/snmp_config.j2"

\* what device.get_snmp_information() can return
SnmpStates == {"{}", "community public"}

\* what device.compare_config() can return
Diffs == {<<>>, <<"+snmp-server community public RO">>}

\* a variant that tears down whatever the flag says
SnmpFirstPhaseAlways(replace) == "fetch"

\* if module.params["replace"]: ... the first call main makes
SnmpFirstPhase(replace) == IF replace THEN "fetch" ELSE "render_target"

\* the order of the calls in main
SnmpNextPhase(p) ==
    CASE p = "fetch" -> "render_teardown"
      [] p = "render_teardown" -> "apply_teardown"
      [] p = "apply_teardown" -> "render_target"
      [] p = "render_target" -> "apply_target"
      [] p = "apply_target" -> "exit"

snmp_main ==
    /\ pc = "start"
    /\ script = "ntc_snmp"
    /\ phase' = SnmpFirstPhase(params.replace)
    /\ pc' = "main"
    /\ UNCHANGED <<staticVars, invVars, callVars, ghostVars, backupVars,
                   lldpVars, log, curr_snmp_config, rendered, snmp_result,
                   changed, snmpDevVars, fn, open, exc, trace, exitCode>>

\* curr_snmp_config = get_snmp_info(...): the call
snmp_call_get_snmp_info ==
    /\ pc = "main"
    /\ phase = "fetch"
    /\ log' = Append(log, "fetch")
    /\ driver_os' = params.os
    /\ fn' = "get_snmp_info"
    /\ snmp_info' = "{}"
    /\ trace' = <<>>
    /\ pc' = "resolve"
    /\ UNCHANGED <<staticVars, invVars, command, ghostVars, backupVars,
                   lldpVars, phase, curr_snmp_config, rendered, snmp_result,
                   changed, config, res, loads, committed, callCommits, open,
                   exc, exitCode>>

\* snmp_info = device.get_snmp_information()
GetSnmpInformation ==
    /\ pc = "get_snmp"
    /\ trace' = Append(trace, "execute")
    /\ pc' = "close"
    /\ \E r \in {"ok"} \cup ExcKinds :
         IF r = "ok"
         THEN /\ snmp_info' \in SnmpStates
              /\ UNCHANGED exc
         ELSE /\ exc' = r
              /\ UNCHANGED snmp_info
    /\ UNCHANGED <<staticVars, invVars, callVars, ghostVars, backupVars,
                   lldpVars, snmpMainVars, config, res, loads, committed,
                   callCommits, fn, open, exitCode>>

\* curr_snmp_config = get_snmp_info(...): the assignment
snmp_store_snmp_info ==
    /\ pc = "return"
    /\ script = "ntc_snmp"
    /\ phase = "fetch"
    /\ curr_snmp_config' = snmp_info
    /\ phase' = SnmpNextPhase(phase)
    /\ pc' = "main"
    /\ UNCHANGED <<staticVars, invVars, callVars, ghostVars, backupVars,
                   lldpVars, log, rendered, snmp_result, changed, snmpDevVars,
                   fn, open, exc, trace, exitCode>>

\* generate_config: an IOError is caught and logged, after which
\* "return rendered_config" reads a name that was never bound
generate_config ==
    /\ pc = "main"
    /\ phase \in {"render_teardown", "render_target"}
    /\ log' = Append(log, phase)
    /\ \E opened \in BOOLEAN :
         IF opened
         THEN /\ rendered' = IF phase = "render_teardown"
                             THEN <<TeardownTemplate, curr_snmp_config>>
                             ELSE <<TargetTemplate, "module.params">>
              /\ phase' = SnmpNextPhase(phase)
              /\ UNCHANGED <<pc, exc>>
         ELSE /\ pc' = "uncaught"
              /\ exc' = "UnboundLocalError"
              /\ UNCHANGED <<rendered, phase>>
    /\ UNCHANGED <<staticVars, invVars, callVars, ghostVars, backupVars,
                   lldpVars, curr_snmp_config, snmp_result, changed,
                   snmpDevVars, fn, open, trace, exitCode>>

\* config_device(..., config=...): the call
snmp_call_config_device ==
    /\ pc = "main"
    /\ phase \in {"apply_teardown", "apply_target"}
    /\ log' = Append(log, phase)
    /\ driver_os' = params.os
    /\ fn' = "config_device"
    /\ config' = rendered
    /\ res' = <<>>
    /\ callCommits' = 0
    /\ trace' = <<>>
    /\ pc' = "resolve"
    /\ UNCHANGED <<staticVars, invVars, command, ghostVars, backupVars,
                   lldpVars, phase, curr_snmp_config, rendered, snmp_result,
                   changed, snmp_info, loads, committed, open, exc, exitCode>>

\* device.load_merge_candidate(config=config)
LoadMergeCandidate ==
    /\ pc = "load"
    /\ trace' = Append(trace, "execute")
    /\ \E r \in {"ok"} \cup ExcKinds :
         IF r = "ok"
         THEN /\ loads' = Append(loads, config)
              /\ pc' = "compare"
              /\ UNCHANGED exc
         ELSE /\ exc' = r
              /\ pc' = "close"
              /\ UNCHANGED loads
    /\ UNCHANGED <<staticVars, invVars, callVars, ghostVars, backupVars,
                   lldpVars, snmpMainVars, snmp_info, config, res, committed,
                   callCommits, fn, open, exitCode>>

\* if len(res) > 0: device.commit_config()
ShouldCommit(diff) == Len(diff) > 0

\* res = device.compare_config()
CompareConfig ==
    /\ pc = "compare"
    /\ trace' = Append(trace, "execute")
    /\ \E r \in {"ok"} \cup ExcKinds :
         IF r = "ok"
         THEN /\ \E d \in Diffs :
                   /\ res' = d
                   /\ pc' = IF ShouldCommit(d) THEN "commit" ELSE "close"
              /\ UNCHANGED exc
         ELSE /\ exc' = r
              /\ pc' = "close"
              /\ UNCHANGED res
    /\ UNCHANGED <<staticVars, invVars, callVars, ghostVars, backupVars,
                   lldpVars, snmpMainVars, snmp_info, config, loads, committed,
                   callCommits, fn, open, exitCode>>

\* a variant that invokes commit_config again after the first commit
CommitConfigTwice ==
    /\ pc = "commit"
    /\ trace' = Append(trace, "execute")
    /\ callCommits' = callCommits + 2
    /\ pc' = "close"
    /\ \E r \in {"ok"} \cup ExcKinds :
         IF r = "ok"
         THEN /\ committed' = committed \o <<config, config>>
              /\ UNCHANGED exc
         ELSE /\ exc' = r
              /\ UNCHANGED committed
    /\ UNCHANGED <<staticVars, invVars, callVars, ghostVars, backupVars,
                   lldpVars, snmpMainVars, snmp_info, config, res, loads, fn,
                   open, exitCode>>

\* device.commit_config()
CommitConfig ==
    /\ pc = "commit"
    /\ trace' = Append(trace, "execute")
    /\ callCommits' = callCommits + 1
    /\ pc' = "close"
    /\ \E r \in {"ok"} \cup ExcKinds :
         IF r = "ok"
         THEN /\ committed' = Append(committed, config)
              /\ UNCHANGED exc
         ELSE /\ exc' = r
              /\ UNCHANGED committed
    /\ UNCHANGED <<staticVars, invVars, callVars, ghostVars, backupVars,
                   lldpVars, snmpMainVars, snmp_info, config, res, loads, fn,
                   open, exitCode>>

\* back in main after config_device: the teardown's return value is
\* dropped, the target's becomes result["snmp_config"]
snmp_after_config_device ==
    /\ pc = "return"
    /\ script = "ntc_snmp"
    /\ phase \in {"apply_teardown", "apply_target"}
    /\ snmp_result' = IF phase = "apply_target" THEN res ELSE snmp_result
    /\ phase' = SnmpNextPhase(phase)
    /\ pc' = "main"
    /\ UNCHANGED <<staticVars, invVars, callVars, ghostVars, backupVars,
                   lldpVars, log, curr_snmp_config, rendered, changed,
                   snmpDevVars, fn, open, exc, trace, exitCode>>

\* changed=True exactly when result["snmp_config"] is not empty
ReportChanged(diff) == IF Len(diff) > 0 THEN "True" ELSE "False"

snmp_exit_json ==
    /\ pc = "main"
    /\ phase = "exit"
    /\ changed' = ReportChanged(snmp_result)
    /\ exitCode' = 0
    /\ pc' = "done"
    /\ UNCHANGED <<staticVars, invVars, callVars, ghostVars, backupVars,
                   lldpVars, phase, log, curr_snmp_config, rendered,
                   snmp_result, snmpDevVars, fn, open, exc, trace>>

NextBackup ==
    \/ create_parent_dir
    \/ backup_read_yaml
    \/ backup_main_loop
    \/ write_file

NextLldp ==
    \/ lldp_read_yaml
    \/ lldp_main_loop
    \/ lldp_main_store
    \/ lldp_main_finish

NextNeighborsModule ==
    \/ nbr_main
    \/ nbr_exit_json

NextSnmp ==
    \/ snmp_main
    \/ snmp_call_get_snmp_info
    \/ snmp_store_snmp_info
    \/ generate_config
    \/ snmp_call_config_device
    \/ snmp_after_config_device
    \/ snmp_exit_json

NextExecutor ==
    \/ get_network_driver
    \/ Connect
    \/ SendCommand
    \/ GetLldpNeighbors
    \/ GetSnmpInformation
    \/ LoadMergeCandidate
    \/ CompareConfig
    \/ CommitConfig
    \/ CloseSession
    \/ Uncaught

Next ==
    \/ NextBackup
    \/ NextLldp
    \/ NextNeighborsModule
    \/ NextSnmp
    \/ NextExecutor

Spec == Init /\ [][Next]_vars

\* --------------------------------------- replace_dict_key on its own
RenameInputs ==
    UNION {[1..n -> DeviceOutputs(MaxNeighbors)] : n \in 0..MaxRenameDevices}

InitRename ==
    /\ script = "rename"
    /\ params = [os |-> "ios", replace |-> FALSE]
    /\ \/ /\ pc = "input_script"
          /\ lldp_neighbors \in RenameInputs
          /\ device_lldp_neighbors = EmptyDict
       \/ /\ pc = "input_module"
          /\ lldp_neighbors = EmptyDict
          /\ device_lldp_neighbors \in DeviceOutputs(MaxNeighbors)
    /\ InitCommon

ApplyReplaceDictKey ==
    /\ pc = "input_script"
    /\ rawInput' = lldp_neighbors
    /\ lldp_neighbors' = replace_dict_key(lldp_neighbors)
    /\ pc' = "renamed_script"
    /\ UNCHANGED <<staticVars, invVars, callVars, ghostVars, backupVars,
                   device_lldp_neighbors, jsonWritten, snmpMainVars,
                   snmpDevVars, fn, open, exc, trace, exitCode>>

ApplyReplaceDictKeyModule ==
    /\ pc = "input_module"
    /\ rawInput' = device_lldp_neighbors
    /\ lldp_neighbors' = replace_dict_key_module(device_lldp_neighbors)
    /\ pc' = "renamed_module"
    /\ UNCHANGED <<staticVars, invVars, callVars, ghostVars, backupVars,
                   device_lldp_neighbors, jsonWritten, snmpMainVars,
                   snmpDevVars, fn, open, exc, trace, exitCode>>

NextRename ==
    \/ ApplyReplaceDictKey
    \/ ApplyReplaceDictKeyModule

SpecRename == InitRename /\ [][NextRename]_vars

\* ================================================================ claims
Devices == 1..Len(inventory)

ScriptEnded == pc = "done" /\ script \in {"backup", "lldp"}

\* a device whose own driver cannot be resolved has no task to attempt
OwnTaskCanStart(d) == script = "backup" \/ inventory[d] \in NapalmDrivers

\* C1: when a backup or LLDP run over a readable inventory has ended, every
\* device of the inventory was attempted, whatever failure another device
\* raised and wherever that device stands in the inventory.
C1_PartialFailureIsolation ==
    (ScriptEnded /\ yamlRead) =>
        \A d \in Devices : OwnTaskCanStart(d) => d \in attempted

\* C2: when a run over a readable inventory has ended, the device names with
\* a recorded result (a backup file, a key of the aggregated neighbour
\* mapping) are exactly the device names of the inventory.
C2_OneResultPerDevice ==
    (ScriptEnded /\ yamlRead) =>
        /\ script = "backup" => DOMAIN files = Devices
        /\ script = "lldp" => DOMAIN lldp_neighbors = Devices

\* C3: no exception ever leaves send_command, get_lldp_neighbors,
\* get_snmp_info, config_device or generate_config.
C3_NeverRaisesPastBoundary == pc # "uncaught"

IsPrefix(s, t) == Len(s) <= Len(t) /\ \A i \in 1..Len(s) : s[i] = t[i]

\* within one call the steps are connect, then executes, then close
TraceOrdered ==
    \A i \in 1..Len(trace) :
        /\ trace[i] = "connect" <=> i = 1
        /\ trace[i] = "close" => i = Len(trace) /\ i > 1

\* C4: once a per-device function has returned or raised, no session it
\* opened is open; a session is open only between the connect and the close
\* of the running call, and at most one session is open at any time.
C4_SessionClosedOnEveryExit ==
    /\ open \in {0, 1}
    /\ fn = "none" => open = 0
    /\ TraceOrdered
    /\ open = 1 <=> (fn # "none" /\ trace # <<>> /\ trace[Len(trace)] # "close")

\* a session was opened, the body raised an exception the function does not
\* catch, and the session is closed when the exception leaves the function
C4_Witness ==
    /\ pc = "uncaught"
    /\ Len(trace) = 3
    /\ trace[3] = "close"
    /\ exc = "OtherException"
    /\ open = 0

\* C5: a backup or LLDP run exits non-zero if and only if hosts.yaml could
\* not be read, and then no device was contacted and no result written.
C5_ExitStatus ==
    ScriptEnded =>
        /\ exitCode # 0 <=> ~yamlRead
        /\ ~yamlRead => attempted = {} /\ files = EmptyDict /\ ~jsonWritten

RenamedRecord(new, old) ==
    /\ DOMAIN new = {"neighbor", "neighbor_interface"}
    /\ new["neighbor"] = old["hostname"]
    /\ new["neighbor_interface"] = old["port"]

RenamedInterfaces(new, old) ==
    /\ DOMAIN new = DOMAIN old
    /\ \A ifc \in DOMAIN old :
          /\ Len(new[ifc]) = Len(old[ifc])
          /\ \A i \in 1..Len(old[ifc]) : RenamedRecord(new[ifc][i], old[ifc][i])

\* C6: after replace_dict_key (either version) the devices, the interfaces
\* of each device, the length and the order of each neighbour list are those
\* of the input, and each record has exactly the fields neighbor and
\* neighbor_interface, holding the input's hostname and port.
C6_RenamingIsTotal ==
    /\ pc = "renamed_script" =>
          /\ DOMAIN lldp_neighbors = DOMAIN rawInput
          /\ \A dev \in DOMAIN rawInput :
                RenamedInterfaces(lldp_neighbors[dev], rawInput[dev])
    /\ pc = "renamed_module" => RenamedInterfaces(lldp_neighbors, rawInput)

\* a renamed list of two different neighbours on one interface, next to an
\* interface with an empty list
C6_Witness ==
    /\ pc = "renamed_script"
    /\ \E dev \in DOMAIN lldp_neighbors :
          /\ DOMAIN lldp_neighbors[dev] = Interfaces
          /\ Len(lldp_neighbors[dev]["Gi0/0"]) = 2
          /\ lldp_neighbors[dev]["Gi0/0"][1]["neighbor"] = "sw1"
          /\ lldp_neighbors[dev]["Gi0/0"][2]["neighbor"] = "sw2"
          /\ lldp_neighbors[dev]["Gi0/2"] = <<>>

ExpectedCalls(replace) ==
    IF replace
    THEN <<"fetch", "render_teardown", "apply_teardown", "render_target",
           "apply_target">>
    ELSE <<"render_target", "apply_target">>

\* C7: with replace the calls of main are fetch, render teardown, apply
\* teardown, render target, apply target, in that order; the teardown config
\* is rendered from the fetched state and loaded before the target config;
\* without replace nothing is fetched and only the target config is loaded.
C7_PushConfigOrdering ==
    script = "ntc_snmp" =>
        /\ IsPrefix(log, ExpectedCalls(params.replace))
        /\ \A i \in 1..Len(loads) :
              /\ loads[i][1] = TeardownTemplate =>
                    /\ params.replace
                    /\ IsPrefix(<<"fetch", "render_teardown", "apply_teardown">>, log)
                    /\ loads[i][2] = curr_snmp_config
              /\ loads[i][1] = TargetTemplate => log[Len(log)] = "apply_target"
              /\ \A j \in 1..Len(loads) :
                    (i < j) => ~(loads[i][1] = TargetTemplate
                                 /\ loads[j][1] = TeardownTemplate)
        /\ ~params.replace =>
              /\ curr_snmp_config = "{}"
              /\ \A i \in 1..Len(log) : log[i] # "fetch"

\* a replace run that fetched a non-empty state, loaded the teardown config
\* rendered from it and then loaded the target config
C7_Witness ==
    /\ script = "ntc_snmp"
    /\ params.replace
    /\ pc = "done"
    /\ loads = <<(<<TeardownTemplate, "community public">>),
                 (<<TargetTemplate, "module.params">>)>>

NoRepeats(s) == \A i, j \in 1..Len(s) : s[i] = s[j] => i = j

\* C9: commit_config is invoked at most once per config_device call, no
\* config is loaded or committed twice, and a run commits at most once
\* without replace and at most twice with it.
C9_NoReapplication ==
    script = "ntc_snmp" =>
        /\ callCommits <= 1
        /\ NoRepeats(loads)
        /\ NoRepeats(committed)
        /\ Len(committed) <= (IF params.replace THEN 2 ELSE 1)
        /\ Len(loads) <= (IF params.replace THEN 2 ELSE 1)

\* a replace run that committed the teardown config and the target config
C9_Witness ==
    /\ script = "ntc_snmp"
    /\ params.replace
    /\ pc = "done"
    /\ Len(committed) = 2
    /\ committed[1][1] = TeardownTemplate
    /\ committed[2][1] = TargetTemplate

\* C10: commit_config is reached only with a non-empty diff, changed=True is
\* reported exactly when the target's diff is non-empty, and whenever
\* changed=False is reported nothing was committed during the run.
C10_ChangedReflectsCommits ==
    script = "ntc_snmp" =>
        /\ pc = "commit" => Len(res) > 0
        /\ changed = "True" => Len(snmp_result) > 0
        /\ changed = "False" => Len(snmp_result) = 0 /\ committed = <<>>

====
